---- MODULE Spec2Model ----
(***************************************************************************)
(* Model of gradia/overlay/drawing_actions.py: the drawing-action family   *)
(* (Stroke, Highlighter, Arrow, Line, Rect, Circle, Censor, Text,          *)
(* NumberStamp), their bounds / hit-test / translate contract, the cairo   *)
(* style state their draw methods mutate, and the censor pixelation        *)
(* pipeline.                                                               *)
(*                                                                         *)
(* Normalised image-space coordinates are fixed-point integers: one unit   *)
(* is 1/200 of the image, so 0.02 is 4 units, 0.01 is 2 units, width/200   *)
(* is `width` units and radius/1000 is radius/5 units.                     *)
(***************************************************************************)
EXTENDS Integers, Sequences, FiniteSets, TLC

VARIABLES
    settings,   \* the live settings record the constructors are handed
    act,        \* the action object under consideration (all its attributes)
    made,       \* the settings values that were in effect when act was constructed
    orig,       \* act's geometry as handed to its constructor
    moved,      \* sum of the deltas of the translate calls applied to act
    cr,         \* the cairo context's style state (operator, line cap, line join)
    ops,        \* the paint calls (stroke / fill / show) of the latest draw, in order
    outcome,    \* how the latest draw ended: "none", "returned" or "raised"
    rng,        \* state of the process-wide generator of the `random` module
    stream42,   \* the raw values the generator yields after seed(42)
    px_in,      \* the buffer handed to the latest _randomize_pixels call
    px_out,     \* the buffer the latest _randomize_pixels call produced
    bound,      \* the buffers handed to act's constructor and set_background, in order
    args        \* the view and the injected failure of the latest draw call

vars == <<settings, act, made, orig, moved, cr, ops, outcome, rng, stream42,
          px_in, px_out, bound, args>>

-----------------------------------------------------------------------------
(* Fixed-point scale and the numeric constants of the source.               *)

DEFAULT_PADDING == 4

Unit == 50 * DEFAULT_PADDING

HitBase == 2

PADDING_X == 4

PADDING_Y == 2

RadiusDivisor == 1000

ArrowMinDistance == 2

-----------------------------------------------------------------------------
(* Bounds of the model.                                                     *)

MaxStroke == 2

MaxShift == 2

MaxProbe == 5

MaxDraws == 5

MaxOther == 2

MaxBind == 3

MaxW == 2

MaxH == 2

-----------------------------------------------------------------------------
(* Small arithmetic helpers (Python built-ins).                             *)

Min2(a, b) == IF a <= b THEN a ELSE b

Max2(a, b) == IF a >= b THEN a ELSE b

Abs(a) == IF a >= 0 THEN a ELSE -a

\* int(n / d) for d > 0: Python's int() truncates toward zero.
TruncDiv(n, d) == IF n >= 0 THEN n \div d ELSE -((-n) \div d)

\* min / max of coordinate k over a non-empty point list
MinCoord(pts, k) == CHOOSE m \in {pts[i][k] : i \in DOMAIN pts} :
                        \A j \in DOMAIN pts : m <= pts[j][k]

MaxCoord(pts, k) == CHOOSE m \in {pts[i][k] : i \in DOMAIN pts} :
                        \A j \in DOMAIN pts : m >= pts[j][k]

None == <<>>

\* Python truthiness of an optional tuple / object reference
Truthy(v) == v # None

-----------------------------------------------------------------------------
(* The settings record: an external collaborator, read through attributes.  *)
(* Colours are RGBA tuples in tenths; an absent fill colour is None.        *)

Red == <<10, 0, 0, 10>>

Blue == <<0, 0, 10, 10>>

Yellow == <<10, 10, 0, 5>>

White == <<10, 10, 10, 10>>

Clear == <<0, 0, 0, 0>>

SettingsA == [pen_color |-> Red, pen_size |-> 1, font_size |-> 12,
              font_family |-> "Sans", fill_color |-> None,
              highlighter_color |-> Yellow, highlighter_size |-> 8,
              arrow_head_size |-> 10, number_radius |-> 0,
              pixelation_level |-> 1]

SettingsB == [pen_color |-> Blue, pen_size |-> 2, font_size |-> 24,
              font_family |-> "Monospace", fill_color |-> White,
              highlighter_color |-> Yellow, highlighter_size |-> 12,
              arrow_head_size |-> 20, number_radius |-> 15,
              pixelation_level |-> 2]

SettingsC == [pen_color |-> Red, pen_size |-> 2, font_size |-> 12,
              font_family |-> "Sans", fill_color |-> Clear,
              highlighter_color |-> Yellow, highlighter_size |-> 8,
              arrow_head_size |-> 10, number_radius |-> 20,
              pixelation_level |-> 2]

SettingsSet == {SettingsA, SettingsB, SettingsC}

-----------------------------------------------------------------------------
(* The action objects.  One record shape holds the attributes of every     *)
(* variant; an attribute a variant does not have is None / 0 / "".          *)

Kinds == {"Stroke", "Highlighter", "Arrow", "Line", "Rect", "Circle",
          "Censor", "Text", "NumberStamp"}

StrokeKinds == {"Stroke", "Highlighter"}

SegmentKinds == {"Arrow", "Line"}

BoxKinds == {"Rect", "Circle", "Censor"}

CornerKinds == SegmentKinds \cup BoxKinds

AnchorKinds == {"Text", "NumberStamp"}

Blank == [kind |-> "", stroke |-> <<>>, start |-> None, end |-> None,
          position |-> None, color |-> None, pen_size |-> 0, width |-> 0,
          arrow_head_size |-> 0, fill_color |-> None, text |-> <<>>,
          image_bounds |-> None, font_size |-> 0, font_family |-> "",
          background_color |-> None, holds_settings |-> FALSE,
          number |-> 0, radius |-> 0, text_color |-> None,
          pixelation_level |-> 0, background_pixbuf |-> None]

StrokeAction(stroke, s) ==
    [Blank EXCEPT !.kind = "Stroke", !.stroke = stroke,
                  !.color = s.pen_color, !.pen_size = s.pen_size]

HighlighterAction(stroke, s) ==
    [Blank EXCEPT !.kind = "Highlighter", !.stroke = stroke,
                  !.color = s.highlighter_color,
                  !.pen_size = s.highlighter_size]

ArrowAction(start, end, s) ==
    [Blank EXCEPT !.kind = "Arrow", !.start = start, !.end = end,
                  !.color = s.pen_color,
                  !.arrow_head_size = s.arrow_head_size,
                  !.width = s.pen_size]

LineAction(start, end, s) ==
    [ArrowAction(start, end, s) EXCEPT !.kind = "Line"]

RectAction(start, end, s) ==
    [Blank EXCEPT !.kind = "Rect", !.start = start, !.end = end,
                  !.color = s.pen_color, !.width = s.pen_size,
                  !.fill_color = s.fill_color]

CircleAction(start, end, s) ==
    [RectAction(start, end, s) EXCEPT !.kind = "Circle"]

CensorAction(start, end, background_pixbuf, s) ==
    [RectAction(start, end, s) EXCEPT
        !.kind = "Censor",
        !.pixelation_level = s.pixelation_level,
        !.background_pixbuf = background_pixbuf]

\* self.settings = settings keeps a reference to the live record
\* (holds_settings); the four copies below are taken as well.
TextAction(position, text, image_bounds, s) ==
    [Blank EXCEPT !.kind = "Text", !.holds_settings = TRUE,
                  !.position = position, !.text = text,
                  !.image_bounds = image_bounds,
                  !.color = s.pen_color, !.font_size = s.font_size,
                  !.font_family = s.font_family,
                  !.background_color = s.fill_color]

\* `r, g, b, a = self.fill_color` raises when the fill colour is absent:
\* the constructor completes only for a 4-tuple.
NumberStampCanConstruct(s) == Len(s.fill_color) = 4

NumberStampAction(position, number, s) ==
    [Blank EXCEPT !.kind = "NumberStamp", !.position = position,
                  !.number = number, !.radius = s.number_radius,
                  !.fill_color = s.fill_color,
                  !.text_color = s.pen_color]

\* The stored geometry of an action, variant by variant.
Geometry(a) ==
    CASE a.kind \in StrokeKinds -> a.stroke
      [] a.kind \in CornerKinds -> <<a.start, a.end>>
      [] OTHER                  -> <<a.position>>

-----------------------------------------------------------------------------
(* Bounds.                                                                  *)

\* apply_padding with the padding applied inwards
apply_padding_inward(bounds, extra_padding) ==
    LET padding == DEFAULT_PADDING + extra_padding
    IN  <<bounds[1] + padding, bounds[2] + padding,
          bounds[3] - padding, bounds[4] - padding>>

apply_padding(bounds, extra_padding) ==
    LET padding == DEFAULT_PADDING + extra_padding
    IN  <<bounds[1] - padding, bounds[2] - padding,
          bounds[3] + padding, bounds[4] + padding>>

\* text.strip() is non-empty
StripNonEmpty(text) == \E i \in DOMAIN text : text[i] # " "

\* The text layout engine's logical extents, in pixels, for a font size in
\* pixels: an external capability; only its shape (non-negative, growing
\* with the text and the size) is modelled.
LayoutExtents(text, family, size) ==
    [width  |-> Len(text) * size * (IF family = "Monospace" THEN 2 ELSE 1),
     height |-> size]

StrokeBounds(a) ==
    IF a.stroke = <<>>
    THEN <<0, 0, 0, 0>>
    ELSE apply_padding(<<MinCoord(a.stroke, 1), MinCoord(a.stroke, 2),
                         MaxCoord(a.stroke, 1), MaxCoord(a.stroke, 2)>>, 0)

ArrowBounds(a) ==
    LET min_x == Min2(a.start[1], a.end[1])
        max_x == Max2(a.start[1], a.end[1])
        min_y == Min2(a.start[2], a.end[2])
        max_y == Max2(a.start[2], a.end[2])
    IN  apply_padding(<<min_x, min_y, max_x, max_y>>, 0)

RectBounds(a) ==
    LET min_x == Min2(a.start[1], a.end[1])
        max_x == Max2(a.start[1], a.end[1])
        min_y == Min2(a.start[2], a.end[2])
        max_y == Max2(a.start[2], a.end[2])
    IN  apply_padding(<<min_x, min_y, max_x, max_y>>, 0)

\* TextAction.get_bounds reads font family and size through self.settings,
\* the live record `s`.
TextBounds(a, s) ==
    IF ~StripNonEmpty(a.text)
    THEN <<a.position[1], a.position[2], a.position[1], a.position[2]>>
    ELSE LET ext == LayoutExtents(a.text, s.font_family, s.font_size)
             reference_width  == a.image_bounds[1]
             reference_height == a.image_bounds[2]
             text_width  == (ext.width * Unit) \div reference_width
             text_height == (ext.height * Unit) \div reference_height
             padding_x_ratio == (PADDING_X * Unit) \div reference_width
             padding_y_ratio == (PADDING_Y * Unit) \div reference_height
             x == a.position[1]
             y == a.position[2]
         IN  apply_padding(<<x - (text_width \div 2) - padding_x_ratio,
                             y - text_height - padding_y_ratio,
                             x + (text_width \div 2) + padding_x_ratio,
                             y + padding_y_ratio>>, 0)

\* radius / 1000, in units
StampRadius(a) == TruncDiv(a.radius * Unit, RadiusDivisor)

NumberStampBounds(a) ==
    LET x == a.position[1]
        y == a.position[2]
        r == StampRadius(a)
    IN  apply_padding(<<x - r, y - r, x + r, y + r>>, 0)

get_bounds(a, s) ==
    CASE a.kind \in StrokeKinds  -> StrokeBounds(a)
      [] a.kind \in SegmentKinds -> ArrowBounds(a)
      [] a.kind \in BoxKinds     -> RectBounds(a)
      [] a.kind = "Text"         -> TextBounds(a, s)
      [] a.kind = "NumberStamp"  -> NumberStampBounds(a)

-----------------------------------------------------------------------------
(* Hit testing.                                                             *)

\* the segment test without the clamp of t to [0, 1]: distance to the
\* infinite line
SegmentContainsUnclamped(a, px, py) ==
    LET x1 == a.start[1]
        y1 == a.start[2]
        x2 == a.end[1]
        y2 == a.end[2]
        line_len_sq == (x2 - x1) * (x2 - x1) + (y2 - y1) * (y2 - y1)
        dot == (px - x1) * (x2 - x1) + (py - y1) * (y2 - y1)
        ex  == (px - x1) * line_len_sq - dot * (x2 - x1)
        ey  == (py - y1) * line_len_sq - dot * (y2 - y1)
        reach == HitBase + a.width
    IN  IF line_len_sq = 0
        THEN (px - x1) * (px - x1) + (py - y1) * (py - y1)
                < DEFAULT_PADDING * DEFAULT_PADDING
        ELSE ex * ex + ey * ey
                < reach * reach * line_len_sq * line_len_sq

\* DrawingAction.contains_point, the LineAction / ArrowAction branch, in
\* exact arithmetic.  t = dot / line_len_sq is kept as the fraction
\* tn / line_len_sq, so the clamp max(0, min(1, t)) clamps tn to
\* [0, line_len_sq]; (px - closest_x) is ex / line_len_sq; and
\* math.hypot(..) < padding compares the squares.
SegmentContains(a, px, py) ==
    LET x1 == a.start[1]
        y1 == a.start[2]
        x2 == a.end[1]
        y2 == a.end[2]
        line_len_sq == (x2 - x1) * (x2 - x1) + (y2 - y1) * (y2 - y1)
        dot == (px - x1) * (x2 - x1) + (py - y1) * (y2 - y1)
        tn  == Max2(0, Min2(line_len_sq, dot))
        ex  == (px - x1) * line_len_sq - tn * (x2 - x1)
        ey  == (py - y1) * line_len_sq - tn * (y2 - y1)
        reach == HitBase + a.width
    IN  IF line_len_sq = 0
        THEN (px - x1) * (px - x1) + (py - y1) * (py - y1)
                < DEFAULT_PADDING * DEFAULT_PADDING
        ELSE ex * ex + ey * ey
                < reach * reach * line_len_sq * line_len_sq

NumberStampContains(a, px, py) ==
    LET x == a.position[1]
        y == a.position[2]
        r == StampRadius(a)
    IN  (px - x) * (px - x) + (py - y) * (py - y) <= r * r

contains_point(a, x, y, s) ==
    LET b == get_bounds(a, s)
    IN  CASE a.kind \in SegmentKinds -> SegmentContains(a, x, y)
          [] a.kind = "NumberStamp"  -> NumberStampContains(a, x, y)
          [] OTHER -> b[1] <= x /\ x <= b[3] /\ b[2] <= y /\ y <= b[4]

-----------------------------------------------------------------------------
(* translate.                                                               *)

StrokeTranslate(a, dx, dy) ==
    [a EXCEPT !.stroke = [i \in 1..Len(a.stroke) |->
                            <<a.stroke[i][1] + dx, a.stroke[i][2] + dy>>]]

\* ArrowAction.translate that forgets the end point
ArrowTranslateStartOnly(a, dx, dy) ==
    [a EXCEPT !.start = <<a.start[1] + dx, a.start[2] + dy>>]

ArrowTranslate(a, dx, dy) ==
    [a EXCEPT !.start = <<a.start[1] + dx, a.start[2] + dy>>,
              !.end   = <<a.end[1] + dx, a.end[2] + dy>>]

RectTranslate(a, dx, dy) ==
    [a EXCEPT !.start = <<a.start[1] + dx, a.start[2] + dy>>,
              !.end   = <<a.end[1] + dx, a.end[2] + dy>>]

TextTranslate(a, dx, dy) ==
    [a EXCEPT !.position = <<a.position[1] + dx, a.position[2] + dy>>]

NumberStampTranslate(a, dx, dy) ==
    [a EXCEPT !.position = <<a.position[1] + dx, a.position[2] + dy>>]

translate(a, dx, dy) ==
    CASE a.kind \in StrokeKinds  -> StrokeTranslate(a, dx, dy)
      [] a.kind \in SegmentKinds -> ArrowTranslate(a, dx, dy)
      [] a.kind \in BoxKinds     -> RectTranslate(a, dx, dy)
      [] a.kind = "Text"         -> TextTranslate(a, dx, dy)
      [] a.kind = "NumberStamp"  -> NumberStampTranslate(a, dx, dy)

-----------------------------------------------------------------------------
(* Pixel buffers (GdkPixbuf), an external capability.  A buffer is its      *)
(* dimensions and its bytes, row by row, rowstride bytes per row except     *)
(* the last, which ends with its last pixel.                                *)

\* GdkPixbuf aligns rows to 4 bytes
RowStride(w, ch) == ((w * ch + 3) \div 4) * 4

ByteLength(w, h, ch) == (h - 1) * RowStride(w, ch) + w * ch

\* the n_channels bytes of pixel (x, y)
PixelAt(pb, x, y) ==
    SubSeq(pb.pixels, y * pb.rowstride + x * pb.n_channels + 1,
                      y * pb.rowstride + x * pb.n_channels + pb.n_channels)

\* a w x h buffer whose pixel (x, y) is pix[x, y]; padding bytes are 0
BuildPixbuf(w, h, ch, pix) ==
    [width |-> w, height |-> h, n_channels |-> ch,
     rowstride |-> RowStride(w, ch),
     pixels |-> [i \in 1..ByteLength(w, h, ch) |->
                    LET row == (i - 1) \div RowStride(w, ch)
                        off == (i - 1) % RowStride(w, ch)
                    IN  IF off < w * ch
                        THEN pix[off \div ch, row][(off % ch) + 1]
                        ELSE 0]]

\* GdkPixbuf.Pixbuf.new_subpixbuf: the w x h region at (x, y)
new_subpixbuf(src, x, y, w, h) ==
    BuildPixbuf(w, h, src.n_channels,
                [i \in 0..(w - 1), j \in 0..(h - 1) |-> PixelAt(src, x + i, y + j)])

\* pixbuf.scale_simple(dw, dh, NEAREST): each destination pixel takes the
\* source pixel under its centre
scale_simple(src, dw, dh) ==
    BuildPixbuf(dw, dh, src.n_channels,
                [i \in 0..(dw - 1), j \in 0..(dh - 1) |->
                    PixelAt(src, ((2 * i + 1) * src.width) \div (2 * dw),
                                 ((2 * j + 1) * src.height) \div (2 * dh))])

-----------------------------------------------------------------------------
(* The `random` module's process-wide generator.  Its state is the seed it  *)
(* was last given and the number of values drawn since.  What it yields     *)
(* after seed(42) is a fixed sequence, stream42; a value is a bucket        *)
(* 0..RawCount-1 of the unit interval.                                      *)

RawValues == {0, 1, 2}

RawCount == Cardinality(RawValues)

\* the value of the n-th call after seed(42); past the modelled prefix the
\* stream stays in the top bucket
RawAt(stream, n) == IF n <= Len(stream) THEN stream[n] ELSE RawCount - 1

\* random.random() < 0.3
BelowSwapChance(raw) == raw * 10 < 3 * RawCount

\* random.choice(seq): an index 1..Len(seq)
ChoiceIndex(raw, n) == ((raw * n) \div RawCount) + 1

offsets == << <<-1, 0>>, <<1, 0>>, <<0, -1>>, <<0, 1>>,
              <<-1, -1>>, <<1, -1>>, <<-1, 1>>, <<1, 1>> >>

\* the list comprehension of line 456: in-bounds neighbours, in offsets order
RECURSIVE NeighborsFrom(_, _, _, _, _)
NeighborsFrom(x, y, w, h, k) ==
    IF k > Len(offsets) THEN <<>>
    ELSE LET nx == x + offsets[k][1]
             ny == y + offsets[k][2]
             rest == NeighborsFrom(x, y, w, h, k + 1)
         IN  IF 0 <= nx /\ nx < w /\ 0 <= ny /\ ny < h
             THEN <<<<nx, ny>>>> \o rest
             ELSE rest

Neighbors(x, y, w, h) == NeighborsFrom(x, y, w, h, 1)

\* Python indexing of a sequence of length n: a negative index counts
\* from the end; -1 stands for IndexError
PyIndex(i, n) == IF 0 <= i /\ i < n THEN i
                 ELSE IF -n <= i /\ i < 0 THEN i + n
                 ELSE -1

\* the swap of lines 461-462 for the first channel only
SwapFirstChannel(pixels, i1, i2, from, channels) ==
    LET j1 == PyIndex(i1, Len(pixels))
        j2 == PyIndex(i2, Len(pixels))
    IN  IF j1 < 0 \/ j2 < 0 THEN None
        ELSE [pixels EXCEPT ![j1 + 1] = pixels[j2 + 1],
                            ![j2 + 1] = pixels[j1 + 1]]

\* lines 461-462: swap the bytes at i1 + c and i2 + c for c = from..channels-1
\* (0-based indices).  None stands for an IndexError.
RECURSIVE SwapPixels(_, _, _, _, _)
SwapPixels(pixels, i1, i2, from, channels) ==
    IF from >= channels THEN pixels
    ELSE LET j1 == PyIndex(i1 + from, Len(pixels))
             j2 == PyIndex(i2 + from, Len(pixels))
         IN  IF j1 < 0 \/ j2 < 0 THEN None
             ELSE SwapPixels([pixels EXCEPT ![j1 + 1] = pixels[j2 + 1],
                                            ![j2 + 1] = pixels[j1 + 1]],
                             i1, i2, from + 1, channels)

\* the loops of lines 453-462 from pixel number k on; pos counts the values
\* drawn from the generator since seed(42)
RECURSIVE RandomizeLoop(_, _, _, _, _)
RandomizeLoop(pb, stream, k, pixels, pos) ==
    IF k >= pb.width * pb.height \/ pixels = None
    THEN [pixels |-> pixels, pos |-> pos]
    ELSE LET x == k % pb.width
             y == k \div pb.width
             neighbors == Neighbors(x, y, pb.width, pb.height)
         IN  IF ~BelowSwapChance(RawAt(stream, pos + 1))
             THEN RandomizeLoop(pb, stream, k + 1, pixels, pos + 1)
             ELSE IF neighbors = <<>>
             THEN RandomizeLoop(pb, stream, k + 1, pixels, pos + 1)
             ELSE LET n  == neighbors[ChoiceIndex(RawAt(stream, pos + 2),
                                                  Len(neighbors))]
                      i1 == y * pb.rowstride + x * pb.n_channels
                      i2 == n[2] * pb.rowstride + n[1] * pb.n_channels
                  IN  RandomizeLoop(pb, stream, k + 1,
                                    SwapPixels(pixels, i1, i2, 0, pb.n_channels),
                                    pos + 2)

\* lines 464-473: Pixbuf.new_from_data on the swapped bytes (it can fail:
\* rebuilt = FALSE).  result is the returned buffer or None; raised tells
\* an exception left the method; rng is the shared generator afterwards.
Rebuild(pixbuf, run, rebuilt) ==
    [result |-> IF run.pixels # None /\ rebuilt
                THEN <<[pixbuf EXCEPT !.pixels = run.pixels]>>
                ELSE None,
     raised |-> run.pixels = None,
     rng    |-> [seed |-> "42", pos |-> run.pos]]

\* CensorAction._randomize_pixels: random.seed(42) on the module's shared
\* generator, the swap loops, then the rebuild.
_randomize_pixels(pixbuf, stream, rebuilt) ==
    Rebuild(pixbuf, RandomizeLoop(pixbuf, stream, 0, pixbuf.pixels, 0), rebuilt)

-----------------------------------------------------------------------------
(* draw.  A view is the widget size in pixels: image_to_widget_coords maps  *)
(* (x, y) to (x * view[1] / Unit, y * view[2] / Unit).  Path construction   *)
(* is left out; each stroke / fill / show call is recorded with the style   *)
(* it painted with.                                                         *)

Paint(c, call, source, line_width) ==
    [call |-> call, operator |-> c.operator, line_cap |-> c.line_cap,
     line_join |-> c.line_join, source_kind |-> "rgba", source |-> source,
     line_width |-> line_width, font_family |-> "", font_size |-> 0]

Result(c, paints, how, g, pin, pout) ==
    [cr |-> c, ops |-> paints, outcome |-> how, rng |-> g,
     px_in |-> pin, px_out |-> pout]

Plain(c, paints, g) == Result(c, paints, "returned", g, None, None)

StrokeDraw(a, c, view, scale, g) ==
    IF Len(a.stroke) < 2
    THEN Plain(c, <<>>, g)
    ELSE LET c1 == [c EXCEPT !.line_cap = "ROUND", !.line_join = "ROUND"]
         IN  Plain(c1, <<Paint(c1, "stroke", a.color, a.pen_size * scale)>>, g)

\* squared widget-space length of start-end, times Unit^2
WidgetDistSq(a, view) ==
    ((a.end[1] - a.start[1]) * view[1]) * ((a.end[1] - a.start[1]) * view[1])
    + ((a.end[2] - a.start[2]) * view[2]) * ((a.end[2] - a.start[2]) * view[2])

ArrowDraw(a, c, view, scale, g) ==
    IF WidgetDistSq(a, view) < ArrowMinDistance * ArrowMinDistance * Unit * Unit
    THEN Plain(c, <<>>, g)
    ELSE Plain(c, <<Paint(c, "stroke", a.color, a.width * scale),
                    Paint(c, "stroke", a.color, a.width * scale)>>, g)

LineDraw(a, c, view, scale, g) ==
    Plain(c, <<Paint(c, "stroke", a.color, a.width * scale)>>, g)

RectDraw(a, c, view, scale, g) ==
    Plain(c, (IF Truthy(a.fill_color)
              THEN <<Paint(c, "fill", a.fill_color, 0)>> ELSE <<>>)
             \o <<Paint(c, "stroke", a.color, a.width * scale)>>, g)

\* rx < 1e-3 or ry < 1e-3, with rx = |x2 - x1| / 2 in widget pixels
CircleDegenerate(a, view) ==
    \/ Abs(a.end[1] - a.start[1]) * view[1] * 1000 < 2 * Unit
    \/ Abs(a.end[2] - a.start[2]) * view[2] * 1000 < 2 * Unit

CircleDraw(a, c, view, scale, g) ==
    IF CircleDegenerate(a, view)
    THEN Plain(c, <<>>, g)
    ELSE Plain(c, (IF Truthy(a.fill_color)
                   THEN <<Paint(c, "fill_preserve", a.fill_color, 0)>> ELSE <<>>)
                  \o <<Paint(c, "stroke", a.color, a.width * scale)>>, g)

HighlighterDraw(a, c, view, scale, g) ==
    IF Len(a.stroke) < 2
    THEN Plain(c, <<>>, g)
    ELSE LET c1 == [c EXCEPT !.operator = "MULTIPLY", !.line_cap = "BUTT"]
             c2 == [c1 EXCEPT !.operator = "OVER", !.line_cap = "ROUND"]
         IN  Plain(c2, <<Paint(c1, "stroke", a.color, a.pen_size * scale)>>, g)

\* the condition of line 227 on self.settings.fill_color
TextFillVisible(fill) ==
    /\ Truthy(fill)
    /\ \E i \in DOMAIN fill : fill[i] > 0 \/ (Len(fill) > 3 /\ fill[4] > 0)

\* TextAction.draw reads family, size, fill and pen colour through
\* self.settings, the live record s
TextDraw(a, c, s, view, scale, g) ==
    IF ~StripNonEmpty(a.text)
    THEN Plain(c, <<>>, g)
    ELSE Plain(c, (IF TextFillVisible(s.fill_color)
                   THEN <<Paint(c, "fill", s.fill_color, 0)>> ELSE <<>>)
                  \o <<[Paint(c, "show_layout", s.pen_color, 0) EXCEPT
                          !.font_family = s.font_family,
                          !.font_size = s.font_size * scale]>>, g)

NumberStampDraw(a, c, view, scale, g) ==
    Plain(c, <<Paint(c, "fill", a.fill_color, 0),
               [Paint(c, "show_text", a.text_color, 0) EXCEPT
                   !.font_family = "Sans",
                   !.font_size = (a.radius * scale * 12) \div 10]>>, g)

-----------------------------------------------------------------------------
(* CensorAction.                                                            *)

\* a setter that keeps the buffer bound at construction
set_background_ignored(a, pixbuf) == a

set_background(a, pixbuf) == [a EXCEPT !.background_pixbuf = pixbuf]

\* the widget rectangle, or None when it is under one pixel wide or high;
\* width and height are kept times Unit
_get_widget_rect(a, view) ==
    LET width  == Abs(a.end[1] - a.start[1]) * view[1]
        height == Abs(a.end[2] - a.start[2]) * view[2]
    IN  IF width >= Unit /\ height >= Unit
        THEN <<[x |-> Min2(a.start[1], a.end[1]) * view[1],
                y |-> Min2(a.start[2], a.end[2]) * view[2],
                width |-> width, height |-> height]>>
        ELSE None

Gray == <<5, 5, 5, 8>>

_draw_fallback(c, rect, g) ==
    IF Truthy(rect)
    THEN Plain(c, <<Paint(c, "fill", Gray, 0)>>, g)
    ELSE Plain(c, <<>>, g)

\* _get_crop_region clamping the corners to [0, dimension] instead of
\* [0, dimension - 1]
_get_crop_region_clamp_to_size(a) ==
    LET w  == a.background_pixbuf[1].width
        h  == a.background_pixbuf[1].height
        x1 == TruncDiv(a.start[1] * w, Unit)
        y1 == TruncDiv(a.start[2] * h, Unit)
        x2 == TruncDiv(a.end[1] * w, Unit)
        y2 == TruncDiv(a.end[2] * h, Unit)
        cx1 == Max2(0, Min2(x1, w))
        cx2 == Max2(0, Min2(x2, w))
        cy1 == Max2(0, Min2(y1, h))
        cy2 == Max2(0, Min2(y2, h))
        crop_w == Max2(cx1, cx2) - Min2(cx1, cx2) + 1
        crop_h == Max2(cy1, cy2) - Min2(cy1, cy2) + 1
    IN  IF crop_w <= 0 \/ crop_h <= 0
        THEN None
        ELSE <<[x |-> Min2(cx1, cx2), y |-> Min2(cy1, cy2),
                width |-> crop_w, height |-> crop_h]>>

_get_crop_region(a) ==
    LET w  == a.background_pixbuf[1].width
        h  == a.background_pixbuf[1].height
        x1 == TruncDiv(a.start[1] * w, Unit)
        y1 == TruncDiv(a.start[2] * h, Unit)
        x2 == TruncDiv(a.end[1] * w, Unit)
        y2 == TruncDiv(a.end[2] * h, Unit)
        cx1 == Max2(0, Min2(x1, w - 1))
        cx2 == Max2(0, Min2(x2, w - 1))
        cy1 == Max2(0, Min2(y1, h - 1))
        cy2 == Max2(0, Min2(y2, h - 1))
        crop_w == Max2(cx1, cx2) - Min2(cx1, cx2) + 1
        crop_h == Max2(cy1, cy2) - Min2(cy1, cy2) + 1
    IN  IF crop_w <= 0 \/ crop_h <= 0
        THEN None
        ELSE <<[x |-> Min2(cx1, cx2), y |-> Min2(cy1, cy2),
                width |-> crop_w, height |-> crop_h]>>

\* new_subpixbuf inside try / except: a failure yields None
_crop_pixbuf(a, crop, fail) ==
    IF fail = "crop"
    THEN None
    ELSE <<new_subpixbuf(a.background_pixbuf[1], crop.x, crop.y,
                         crop.width, crop.height)>>

\* the steps at which a pixel-buffer operation can fail: new_subpixbuf,
\* the first scale_simple (returns None when out of memory),
\* Pixbuf.new_from_data, the second scale_simple
Failures == {"none", "crop", "downsample", "reconstruct", "upsample"}

\* cr.save(), set_source_pixbuf, rectangle, fill, cr.restore()
_draw_pixbuf(c, pixelated, g, small, randomized) ==
    Result(c, <<[Paint(c, "fill", pixelated.of.pixels, 0) EXCEPT
                    !.source_kind = "pixbuf"]>>,
           "returned", g, small, randomized)

\* CensorAction.draw, stage by stage, last stage first.

\* lines 393-402: after _randomize_pixels
CensorDrawRandomized(c, rect, small, rz, fail) ==
    IF rz.raised
    THEN Result(c, <<>>, "raised", rz.rng, small, None)
    ELSE IF ~Truthy(rz.result)
    THEN Result(c, <<>>, "returned", rz.rng, small, None)
    ELSE IF fail = "upsample"
    \* _draw_pixbuf(cr, None, rect): set_source_pixbuf rejects None with a
    \* TypeError
    THEN Result(c, <<>>, "raised", rz.rng, small, rz.result)
    ELSE _draw_pixbuf(c, [of |-> rz.result[1],
                          width |-> rect[1].width \div Unit,
                          height |-> rect[1].height \div Unit],
                      rz.rng, small, rz.result)

\* line 392: small is what the first scale_simple returned
CensorDrawSmall(c, rect, small, g, stream, fail) ==
    IF small = None
    \* _randomize_pixels(None): None.get_pixels() raises AttributeError
    \* before the generator is touched
    THEN Result(c, <<>>, "raised", g, None, None)
    ELSE CensorDrawRandomized(c, rect, small,
            _randomize_pixels(small[1], stream, fail # "reconstruct"), fail)

\* lines 381-390: cropped is what _crop_pixbuf returned
CensorDrawCropped(a, c, rect, cropped, g, stream, fail) ==
    IF ~Truthy(cropped) THEN Plain(c, <<>>, g)
    ELSE IF a.pixelation_level = 0
    \* cropped.get_width() // pixel_size: ZeroDivisionError
    THEN Result(c, <<>>, "raised", g, None, None)
    ELSE CensorDrawSmall(c, rect,
            IF fail = "downsample" THEN None
            ELSE <<scale_simple(cropped[1],
                      Max2(1, cropped[1].width \div a.pixelation_level),
                      Max2(1, cropped[1].height \div a.pixelation_level))>>,
            g, stream, fail)

\* lines 377-380: crop is what _get_crop_region returned
CensorDrawCrop(a, c, rect, crop, g, stream, fail) ==
    IF ~Truthy(crop) THEN Plain(c, <<>>, g)
    ELSE CensorDrawCropped(a, c, rect, _crop_pixbuf(a, crop[1], fail),
                           g, stream, fail)

\* lines 373-376: rect is what _get_widget_rect returned
CensorDrawRect(a, c, rect, g, stream, fail) ==
    IF ~Truthy(rect) \/ ~Truthy(a.background_pixbuf)
    THEN _draw_fallback(c, rect, g)
    ELSE CensorDrawCrop(a, c, rect, _get_crop_region(a), g, stream, fail)

CensorDraw(a, c, view, scale, g, stream, fail) ==
    CensorDrawRect(a, c, _get_widget_rect(a, view), g, stream, fail)

\* action.draw(cr, image_to_widget_coords, scale), by variant
Draw(a, c, s, view, scale, g, stream, fail) ==
    CASE a.kind = "Stroke"      -> StrokeDraw(a, c, view, scale, g)
      [] a.kind = "Highlighter" -> HighlighterDraw(a, c, view, scale, g)
      [] a.kind = "Arrow"       -> ArrowDraw(a, c, view, scale, g)
      [] a.kind = "Line"        -> LineDraw(a, c, view, scale, g)
      [] a.kind = "Rect"        -> RectDraw(a, c, view, scale, g)
      [] a.kind = "Circle"      -> CircleDraw(a, c, view, scale, g)
      [] a.kind = "Text"        -> TextDraw(a, c, s, view, scale, g)
      [] a.kind = "NumberStamp" -> NumberStampDraw(a, c, view, scale, g)
      [] a.kind = "Censor"      -> CensorDraw(a, c, view, scale, g, stream, fail)

-----------------------------------------------------------------------------
(* Inputs of the geometry specification.                                    *)

Points == {<<0, 0>>, <<8, 0>>, <<8, 6>>, <<3, 3>>}

Strokes == UNION {[1..n -> Points] : n \in 0..MaxStroke}

Texts == {<<>>, <<" ">>, <<"a", "b">>}

ImageBounds == {<<100, 50>>, <<200, 100>>}

Deltas == {-1, 0, 1}

\* Every action a constructor can return for settings s and these inputs.
Constructed(s, pts, strokes, image_bounds) ==
    {StrokeAction(st, s) : st \in strokes}
    \cup {HighlighterAction(st, s) : st \in strokes}
    \cup {ArrowAction(p, q, s) : p \in pts, q \in pts}
    \cup {LineAction(p, q, s) : p \in pts, q \in pts}
    \cup {RectAction(p, q, s) : p \in pts, q \in pts}
    \cup {CircleAction(p, q, s) : p \in pts, q \in pts}
    \cup {CensorAction(p, q, None, s) : p \in pts, q \in pts}
    \cup {TextAction(p, t, ib, s) : p \in pts, t \in Texts, ib \in image_bounds}
    \cup (IF NumberStampCanConstruct(s)
          THEN {NumberStampAction(p, 1, s) : p \in pts}
          ELSE {})

\* cairo's defaults for a fresh context.  Source colour and line width are
\* ambient too, but every draw sets them before each paint call, so they are
\* carried in the paint records only.
FreshContext == [operator |-> "OVER", line_cap |-> "BUTT", line_join |-> "MITER"]

\* random's generator before anything seeded it: seeded from the system
IdleRng == [seed |-> "os", pos |-> 0]

Idle ==
    /\ cr = FreshContext
    /\ ops = <<>>
    /\ outcome = "none"
    /\ rng = IdleRng
    /\ stream42 = <<>>
    /\ px_in = None
    /\ px_out = None
    /\ bound = <<act.background_pixbuf>>
    /\ args = None

IdleUnchanged ==
    UNCHANGED <<cr, ops, outcome, rng, stream42, px_in, px_out, bound, args>>

InitGeom ==
    /\ settings \in {SettingsA, SettingsB}
    /\ act \in Constructed(settings, Points, Strokes, ImageBounds)
    /\ made = settings
    /\ orig = Geometry(act)
    /\ moved = <<0, 0>>
    /\ Idle

\* the editor moves the action: act.translate(dx, dy)
Translate ==
    \E dx \in Deltas, dy \in Deltas :
        /\ Abs(moved[1] + dx) <= MaxShift
        /\ Abs(moved[2] + dy) <= MaxShift
        /\ act' = translate(act, dx, dy)
        /\ moved' = <<moved[1] + dx, moved[2] + dy>>
        /\ UNCHANGED <<settings, made, orig>>
        /\ IdleUnchanged

\* the user changes the global settings; existing actions are not told
ChangeSettings ==
    \E s \in SettingsSet :
        /\ s # settings
        /\ settings' = s
        /\ UNCHANGED <<act, made, orig, moved>>
        /\ IdleUnchanged

NextGeom == Translate \/ ChangeSettings

SpecGeom == InitGeom /\ [][NextGeom]_vars

-----------------------------------------------------------------------------
(* Properties of the geometry specification.                                *)

ShiftAll(geom, d) ==
    [i \in 1..Len(geom) |-> <<geom[i][1] + d[1], geom[i][2] + d[2]>>]

\* C2: translate is a rigid shift that composes additively: after any
\* sequence of translate calls the stored geometry is the constructor's
\* geometry with every point shifted by the sum of the deltas; two further
\* calls (a,b) then (c,d) leave what one call (a+c, b+d) leaves; and
\* (dx,dy) followed by (-dx,-dy) restores the geometry.
TranslateComposes ==
    /\ Geometry(act) = ShiftAll(orig, moved)
    /\ \A a \in Deltas, b \in Deltas, c \in Deltas, d \in Deltas :
          Geometry(translate(translate(act, a, b), c, d))
              = Geometry(translate(act, a + c, b + d))
    /\ \A dx \in Deltas, dy \in Deltas :
          Geometry(translate(translate(act, dx, dy), -dx, -dy)) = Geometry(act)

\* at least two translate calls were composed on a two-point geometry
TranslatedTwice ==
    /\ Abs(moved[1]) >= 2
    /\ moved[2] # 0
    /\ Len(Geometry(act)) = 2
    /\ orig[1] # orig[2]

\* the query points tried around a segment
Probes(a) ==
    {<<x, y>> :
        x \in (Min2(a.start[1], a.end[1]) - MaxProbe)
                ..(Max2(a.start[1], a.end[1]) + MaxProbe),
        y \in (Min2(a.start[2], a.end[2]) - MaxProbe)
                ..(Max2(a.start[2], a.end[2]) + MaxProbe)}

\* squared distance from p to the nearest point of the segment start-end
\* (start # end), as a fraction <<numerator, denominator>>: the nearest
\* point is start, end or the foot of the perpendicular.
NearestDistSq(a, p) ==
    LET ux == a.end[1] - a.start[1]
        uy == a.end[2] - a.start[2]
        vx == p[1] - a.start[1]
        vy == p[2] - a.start[2]
        wx == p[1] - a.end[1]
        wy == p[2] - a.end[2]
        len_sq == ux * ux + uy * uy
        along  == vx * ux + vy * uy
        cross  == vx * uy - vy * ux
    IN  IF along <= 0 THEN <<vx * vx + vy * vy, 1>>
        ELSE IF along >= len_sq THEN <<wx * wx + wy * wy, 1>>
        ELSE <<cross * cross, len_sq>>

\* p lies on the segment start-end
OnSegment(a, p) ==
    LET ux == a.end[1] - a.start[1]
        uy == a.end[2] - a.start[2]
        vx == p[1] - a.start[1]
        vy == p[2] - a.start[2]
    IN  /\ vx * uy - vy * ux = 0
        /\ 0 <= vx * ux + vy * uy
        /\ vx * ux + vy * uy <= ux * ux + uy * uy

\* C4: for Arrow and Line, contains_point is a point-to-segment test: with
\* start # end it is true exactly when the squared distance to the nearest
\* point of the segment is below (0.01 + width/200)^2, so every point on
\* the segment (endpoints and midpoint included) is a hit and no point
\* farther away than that is; with start == end it is true exactly when the
\* distance to that point is below the default padding 0.02.
SegmentHitTest ==
    act.kind \in SegmentKinds =>
        LET reach == HitBase + act.width
        IN  \A p \in Probes(act) :
                LET hit == contains_point(act, p[1], p[2], settings)
                    d   == NearestDistSq(act, p)
                IN  IF act.start = act.end
                    THEN hit <=> ((p[1] - act.start[1]) * (p[1] - act.start[1])
                                  + (p[2] - act.start[2]) * (p[2] - act.start[2])
                                    < DEFAULT_PADDING * DEFAULT_PADDING)
                    ELSE /\ hit <=> (d[1] < reach * reach * d[2])
                         /\ OnSegment(act, p) => hit
                         /\ d[1] > reach * reach * d[2] => ~hit

\* a moved, non-degenerate arrow with a hit at its midpoint, a miss beside
\* it and a miss beyond its end
SegmentHitAndMiss ==
    /\ act.kind = "Arrow"
    /\ act.start # act.end
    /\ moved # <<0, 0>>
    /\ \E p \in Probes(act) :
          /\ 2 * p[1] = act.start[1] + act.end[1]
          /\ 2 * p[2] = act.start[2] + act.end[2]
          /\ contains_point(act, p[1], p[2], settings)
    /\ \E p \in Probes(act) :
          /\ NearestDistSq(act, p)[2] > 1
          /\ ~contains_point(act, p[1], p[2], settings)
    /\ \E p \in Probes(act) :
          /\ NearestDistSq(act, p)[2] = 1
          /\ ~contains_point(act, p[1], p[2], settings)

-----------------------------------------------------------------------------
(* The drawing specification: actions are constructed, rebound, and drawn   *)
(* one after another on one cairo context while the settings change.        *)

\* a w x h buffer with ch channels whose bytes start at base
Pattern(w, h, ch, base) ==
    BuildPixbuf(w, h, ch,
                [x \in 0..(w - 1), y \in 0..(h - 1) |->
                    [c \in 1..ch |-> base + 10 * (y * w + x) + c]])

BackgroundA == Pattern(4, 2, 3, 0)

BackgroundB == Pattern(2, 3, 4, 100)

Backgrounds == {BackgroundA, BackgroundB}

DrawPoints == {<<0, 0>>, <<8, 6>>}

DrawStrokes == UNION {[1..n -> DrawPoints] : n \in 0..MaxStroke}

\* corners inside, on the edge of and outside the image
CensorPoints == {<<-100, -50>>, <<90, 120>>, <<300, 250>>}

Views == {<<400, 200>>, <<20, 10>>}

Scales == {1, 2}

SampleStream == <<0, 1, 2, 0, 0>>

DrawObjects(s) == Constructed(s, DrawPoints, DrawStrokes, {<<100, 50>>})

BackgroundOptions == {None} \cup {<<b>> : b \in Backgrounds}

CensorObjects(s) ==
    {CensorAction(p, q, bg, s) :
        p \in CensorPoints, q \in CensorPoints, bg \in BackgroundOptions}

DrawIdle ==
    /\ moved = <<0, 0>>
    /\ cr = FreshContext
    /\ ops = <<>>
    /\ outcome = "none"
    /\ rng = IdleRng
    /\ stream42 = SampleStream
    /\ px_in = None
    /\ px_out = None
    /\ bound = <<act.background_pixbuf>>
    /\ args = None

InitDraw ==
    /\ settings \in SettingsSet
    /\ act \in DrawObjects(settings)
    /\ made = settings
    /\ orig = Geometry(act)
    /\ DrawIdle

\* a gesture completes: the next action of the list is constructed from the
\* settings in effect now
Construct ==
    \E a \in DrawObjects(settings) :
        /\ act' = a
        /\ made' = settings
        /\ orig' = Geometry(a)
        /\ moved' = <<0, 0>>
        /\ ops' = <<>>
        /\ outcome' = "none"
        /\ px_in' = None
        /\ px_out' = None
        /\ bound' = <<a.background_pixbuf>>
        /\ args' = None
        /\ UNCHANGED <<settings, cr, rng, stream42>>

\* the editor repaints: act.draw(cr, image_to_widget_coords, scale)
\* the draw left r behind
Drawn(r) ==
    /\ cr' = r.cr
    /\ ops' = r.ops
    /\ outcome' = r.outcome
    /\ rng' = r.rng
    /\ px_in' = r.px_in
    /\ px_out' = r.px_out
    /\ UNCHANGED <<settings, act, made, orig, moved, stream42, bound>>

DrawWith(view, scale, fail) ==
    /\ args' = <<[view |-> view, fail |-> fail]>>
    /\ Drawn(Draw(act, cr, settings, view, scale, rng, stream42, fail))

\* only a censor with a buffer bound works on pixel buffers, whose
\* operations can fail
FailuresFor(a) ==
    IF a.kind = "Censor" /\ Truthy(a.background_pixbuf)
    THEN Failures
    ELSE {"none"}

DrawAction ==
    \E view \in Views, scale \in Scales, fail \in FailuresFor(act) :
        DrawWith(view, scale, fail)

NextDraw == Construct \/ DrawAction \/ ChangeSettings

SpecDraw == InitDraw /\ [][NextDraw]_vars

-----------------------------------------------------------------------------
(* The censor specification: one Censor action, rebound and drawn.          *)

InitCensor ==
    /\ settings \in {SettingsA, SettingsB}
    /\ act \in CensorObjects(settings)
    /\ made = settings
    /\ orig = Geometry(act)
    /\ DrawIdle

\* the editor (re)binds the background snapshot, or unbinds it
SetBackground ==
    /\ act.kind = "Censor"
    /\ Len(bound) < MaxBind
    /\ \E pixbuf \in BackgroundOptions :
          /\ pixbuf # bound[Len(bound)]
          /\ act' = set_background(act, pixbuf)
          /\ bound' = Append(bound, pixbuf)
    /\ UNCHANGED <<settings, made, orig, moved, cr, ops, outcome, rng,
                   stream42, px_in, px_out, args>>

NextCensor == SetBackground \/ DrawAction

SpecCensor == InitCensor /\ [][NextCensor]_vars

-----------------------------------------------------------------------------
(* The randomisation specification: _randomize_pixels is called on small    *)
(* buffers, for every value sequence the seeded generator could yield,      *)
(* while other code of the process uses the same `random` module.           *)

Streams == [1..MaxDraws -> RawValues]

SmallBuffers == {Pattern(w, h, ch, 1) : w \in 1..MaxW, h \in 1..MaxH, ch \in {3, 4}}

InitRandom ==
    /\ settings = SettingsB
    /\ act = CensorAction(<<0, 0>>, <<90, 120>>, <<BackgroundA>>, settings)
    /\ made = settings
    /\ orig = Geometry(act)
    /\ moved = <<0, 0>>
    /\ cr = FreshContext
    /\ ops = <<>>
    /\ outcome = "none"
    /\ rng = IdleRng
    /\ stream42 \in Streams
    /\ px_in = None
    /\ px_out = None
    /\ bound = <<act.background_pixbuf>>
    /\ args = None

\* the call left rz behind
Randomized(small, rz) ==
    /\ px_in' = <<small>>
    /\ px_out' = rz.result
    /\ outcome' = IF rz.raised THEN "raised" ELSE "returned"
    /\ rng' = rz.rng
    /\ UNCHANGED <<settings, act, made, orig, moved, cr, ops, stream42,
                   bound, args>>

\* a censor draw reaches its randomisation step with the buffer `small`
Randomize ==
    \E small \in SmallBuffers :
        Randomized(small, _randomize_pixels(small, stream42, TRUE))

\* other code of the process calls random.random()
OtherRandom ==
    /\ rng.pos < MaxOther
    /\ rng' = [rng EXCEPT !.pos = @ + 1]
    /\ UNCHANGED <<settings, act, made, orig, moved, cr, ops, outcome,
                   stream42, px_in, px_out, bound, args>>

NextRandom == Randomize \/ OtherRandom

SpecRandom == InitRandom /\ [][NextRandom]_vars

-----------------------------------------------------------------------------
(* Properties of the drawing specification.                                 *)

\* C3: an action captures its settings values at construction and never
\* reads the settings record again: whatever the settings are changed to
\* afterwards, every later draw and get_bounds of the action uses the
\* values that were in effect at construction.
SettingsCapturedAtConstruction ==
    /\ get_bounds(act, settings) = get_bounds(act, made)
    /\ \A i \in DOMAIN ops :
          /\ ops[i].source \in {made.pen_color, made.fill_color,
                                made.highlighter_color, Gray}
          /\ ops[i].font_family \in {"", "Sans", made.font_family}
          /\ ops[i].call = "show_layout" =>
                /\ ops[i].font_family = made.font_family
                /\ ops[i].font_size \in {made.font_size * sc : sc \in Scales}

\* the styles (operator, cap, join) of a list of paint calls agree: the
\* operator at every call, cap and join at the calls that stroke a path
SameStyles(p, q) ==
    /\ Len(p) = Len(q)
    /\ \A i \in DOMAIN p :
          /\ p[i].call = q[i].call
          /\ p[i].operator = q[i].operator
          /\ p[i].call = "stroke" =>
                /\ p[i].line_cap = q[i].line_cap
                /\ p[i].line_join = q[i].line_join

\* C9: one action's draw does not leak style into the next action's draw:
\* the compositing operator, line cap and line join in effect when an
\* action paints are the same whatever was drawn on the surface before it,
\* that is, the same as when it is drawn first on a fresh context.
StyleIndependentOfHistory ==
    [][(act' = act /\ settings' = settings /\ Truthy(args')) =>
          \E scale \in Scales :
              SameStyles(ops', Draw(act, FreshContext, settings, args'[1].view,
                                    scale, rng, stream42, args'[1].fail).ops)]_vars

-----------------------------------------------------------------------------
(* Properties of the censor specification.                                  *)

\* C6: for a Censor action bound to a buffer of width w >= 1 and height
\* h >= 1 and any two corners (inside, partly or fully outside 0..1, in
\* either order) the crop region is well-formed and inside the buffer:
\* 0 <= x, 0 <= y, width >= 1, height >= 1, x + width <= w, y + height <= h.
CropInsideBuffer ==
    (act.kind = "Censor" /\ Truthy(act.background_pixbuf)) =>
        LET crop == _get_crop_region(act)
            pb   == act.background_pixbuf[1]
        IN  /\ Truthy(crop)
            /\ 0 <= crop[1].x /\ 0 <= crop[1].y
            /\ crop[1].width >= 1 /\ crop[1].height >= 1
            /\ crop[1].x + crop[1].width <= pb.width
            /\ crop[1].y + crop[1].height <= pb.height

\* both corners beyond the buffer, and the draw pixelated all the same
CropOutsidePainted ==
    /\ act.kind = "Censor"
    /\ act.start[1] > Unit /\ act.start[2] > Unit
    /\ act.end[1] < 0 /\ act.end[2] < 0
    /\ Truthy(act.background_pixbuf)
    /\ Len(ops) = 1
    /\ ops[1].source_kind = "pixbuf"

\* C7: Censor.draw never raises to its caller: a failure at crop,
\* downsample, randomize / reconstruct or upsample makes the draw return
\* without painting.
CensorDrawNeverRaises ==
    (act.kind = "Censor" /\ Truthy(args)) =>
        /\ outcome # "raised"
        /\ args[1].fail # "none" => ops = <<>>

Bytes(seq) == {seq[i] : i \in DOMAIN seq}

\* what a draw with the given view and failure must have left behind
DrawDecision(view, fail) ==
    LET rect == _get_widget_rect(act, view)
        latest == bound[Len(bound)]
    IN  /\ ~Truthy(rect) => ops' = <<>>
        /\ (Truthy(rect) /\ ~Truthy(latest)) =>
              /\ Len(ops') = 1
              /\ ops'[1].source_kind = "rgba"
              /\ ops'[1].source = Gray
        /\ (Truthy(rect) /\ Truthy(latest)) =>
              /\ \A i \in DOMAIN ops' : ops'[i].source_kind = "pixbuf"
              /\ \A i \in DOMAIN ops' :
                    Bytes(ops'[i].source) \subseteq Bytes(latest[1].pixels) \cup {0}
              /\ Truthy(px_in') =>
                    Bytes(px_in'[1].pixels) \subseteq Bytes(latest[1].pixels) \cup {0}
              /\ fail = "none" => (Len(ops') = 1 /\ outcome' = "returned")

\* C8: in any sequence of set_background and draw calls on one Censor
\* action each draw decides by the currently bound buffer: below one view
\* pixel in width or height it paints nothing; otherwise it paints the
\* flat gray fallback exactly when no buffer is bound at that moment, and
\* pixelates from the most recently bound buffer when one is bound (the
\* pixelated paint is made whenever no pipeline step fails).
DrawUsesBoundBuffer ==
    [][(bound' = bound /\ Truthy(args')) =>
          DrawDecision(args'[1].view, args'[1].fail)]_vars

\* bound, unbound, then rebound to another buffer, and pixelated from it
ReboundAndPixelated ==
    /\ Len(bound) = 3
    /\ Truthy(bound[1]) /\ ~Truthy(bound[2]) /\ Truthy(bound[3])
    /\ bound[3] # bound[1]
    /\ Len(ops) = 1
    /\ ops[1].source_kind = "pixbuf"
    /\ Bytes(ops[1].source) \subseteq Bytes(bound[3][1].pixels) \cup {0}

-----------------------------------------------------------------------------
(* Properties of the randomisation specification.                           *)

\* C5: the pixel-swap pass uses a random source seeded with 42 that is
\* local to one censor draw: identical input gives identical output on
\* every run, and the pass does not change the state of the generator
\* shared with other code.
RandomSourceIsLocal ==
    [][Randomize =>
          /\ rng' = rng
          /\ px_out' = _randomize_pixels(px_in'[1], stream42, TRUE).result]_vars

\* the pixels of a buffer, as the set of their positions
Positions(pb) == (0..(pb.width - 1)) \X (0..(pb.height - 1))

\* how many pixels of pb have the value v
Count(pb, v) == Cardinality({p \in Positions(pb) : PixelAt(pb, p[1], p[2]) = v})

\* C10: the pixel-swap pass only rearranges pixels: for every buffer and
\* every outcome of the random draws the output has the dimensions of the
\* input and the same multiset of pixel values, every byte between the
\* pixels is left alone, and no index outside the buffer is touched.
SwapPassRearranges ==
    Truthy(px_in) =>
        /\ outcome = "returned"
        /\ Truthy(px_out)
        /\ px_out[1].width = px_in[1].width
        /\ px_out[1].height = px_in[1].height
        /\ px_out[1].rowstride = px_in[1].rowstride
        /\ Len(px_out[1].pixels) = Len(px_in[1].pixels)
        /\ \A p \in Positions(px_in[1]) :
              Count(px_out[1], PixelAt(px_in[1], p[1], p[2]))
                  = Count(px_in[1], PixelAt(px_in[1], p[1], p[2]))
        /\ \A i \in DOMAIN px_in[1].pixels :
              ((i - 1) % px_in[1].rowstride
                    >= px_in[1].width * px_in[1].n_channels)
                 => px_out[1].pixels[i] = px_in[1].pixels[i]

\* a 2 x 2 buffer in which at least one swap took place
PixelsWereSwapped ==
    /\ Truthy(px_in)
    /\ Truthy(px_out)
    /\ px_in[1].width >= 2 /\ px_in[1].height >= 2
    /\ px_out[1].pixels # px_in[1].pixels

====
